---- MODULE Spec2Model ----
(***************************************************************************)
(* Free Proxy List API (app/): the refresh scheduler, the fetch            *)
(* orchestrator, the merge engine, the quality scorer, the spot checker    *)
(* and the in-memory cache, as one state machine.                          *)
(*                                                                         *)
(* The program runs on one asyncio event loop: the code between two        *)
(* suspension points (an await that really yields) runs without            *)
(* interleaving, so every action below is one such stretch of code.        *)
(* Scores and reliabilities are fixed-point: reliability and quality_score *)
(* in thousandths, the scorer's intermediate sum in hundred-thousandths.   *)
(***************************************************************************)
EXTENDS Integers, Sequences, FiniteSets, TLC

VARIABLES
    cache,        \* app/cache.py: the module-level ProxyCache singleton
    now,          \* time.time(), in whole clock units
    SPOT_CHECK_SAMPLE_SIZE,  \* config.py: read from the environment at import
    lifespan,     \* position of app/main.py lifespan()
    pc,           \* per task: position inside refresh_cache / _periodic_refresh
    loc,          \* per task: the locals of refresh_cache and fetch_all_sources
    cancel,       \* per task: Task.cancel() was called and CancelledError is not yet delivered
    cycles,       \* number of refresh cycles begun so far (identifies a cycle)
    events,       \* per task: what the current cycle has done so far, in order
    pre,          \* per task: the cache as it was when the current cycle began
    outcome,      \* per task: how the task's latest cycle ended
    response      \* what the request handler of this step returned, if it is one

vars == <<cache, now, SPOT_CHECK_SAMPLE_SIZE, lifespan, pc, loc, cancel, cycles, events, pre, outcome, response>>

-----------------------------------------------------------------------------
(* Bounds of the model                                                     *)

\* The clock stops advancing here. Every periodic cycle follows a sleep of one
\* refresh interval, so this also bounds the number of cycles of a run.
MaxTime == 2

\* The longest raw list handed to the merge engine in the merge engine's own
\* specification.
MaxRaw == 4

\* The longest payload handed to an adapter in the adapters' own specification.
MaxEntries == 3

\* Where the clock stops in the cache's own specification.
MaxClock == 5

\* The largest source_count and the longest verified_targets list handed to the
\* scorer in the scorer's own specification (their terms saturate at 3 and 5).
MaxCount == 4
MaxTargets == 6

\* Where the clock stops in the specification of the periodic task alone: one
\* cycle per refresh interval, the first at time 2.
MaxOutage == 3

-----------------------------------------------------------------------------
(* Values                                                                  *)

NoneStr == "None"    \* Python None, in a string-valued field
NoneNum == -1        \* Python None, in a number-valued field

Tasks == {"startup", "periodic"}
Sources == <<"proxifly", "vakhov", "clearproxy">>
SourceNames == {Sources[i] : i \in 1..Len(Sources)}
ClearproxyVariants == <<"http", "socks4", "socks5">>

Min(a, b) == IF a < b THEN a ELSE b
Max(a, b) == IF a > b THEN a ELSE b

_build_proxy_url(protocol, ip, port) == protocol \o "://" \o ip \o ":" \o ToString(port)

\* models.py Proxy, with the defaults of its optional fields; `cycle` is not a
\* field of the program: it stands for the identity of the object, which is
\* constructed anew in every cycle.
Proxy(ip, port, protocol, anonymity, country, speed_ms, reliability, cycle) ==
    [ip |-> ip, port |-> port, protocol |-> protocol, anonymity |-> anonymity,
     country |-> country, proxy_url |-> _build_proxy_url(protocol, ip, port),
     speed_ms |-> speed_ms, reliability |-> reliability,
     source_count |-> 1, quality_score |-> 0, verified_targets |-> NoneNum,
     cycle |-> cycle]    \* verified_targets: the length of the list, or None

-----------------------------------------------------------------------------
(* verification.py: compute_quality_score                                  *)

Round3(x) ==
    LET q == x \div 100
        r == x % 100
    IN  IF r > 50 \/ (r = 50 /\ q % 2 = 1) THEN q + 1 ELSE q

AnonScore(anonymity) ==
    CASE anonymity = "elite" -> 10000
      [] anonymity = "anonymous" -> 6000
      [] anonymity = "transparent" -> 2000
      [] OTHER -> 0

\* A faulty compute_quality_score: the speed term is not floored at 0.
compute_quality_score_NoFloor(proxy) ==
    LET s1 == Min(proxy.source_count * 10000, 30000)
        s2 == IF proxy.reliability # NoneNum THEN proxy.reliability * 30 ELSE 0
        s3 == IF proxy.speed_ms # NoneNum /\ proxy.speed_ms > 0
              THEN 20000 - 4 * proxy.speed_ms ELSE 0
        s4 == AnonScore(proxy.anonymity)
        s5 == IF proxy.verified_targets # NoneNum /\ proxy.verified_targets > 0
              THEN Min(proxy.verified_targets * 2000, 10000) ELSE 0
    IN  Round3(Min(s1 + s2 + s3 + s4 + s5, 100000))

compute_quality_score(proxy) ==
    LET s1 == Min(proxy.source_count * 10000, 30000)
        s2 == IF proxy.reliability # NoneNum THEN proxy.reliability * 30 ELSE 0
        s3 == IF proxy.speed_ms # NoneNum /\ proxy.speed_ms > 0
              THEN Max(0, 20000 - 4 * proxy.speed_ms) ELSE 0
        s4 == AnonScore(proxy.anonymity)
        s5 == IF proxy.verified_targets # NoneNum /\ proxy.verified_targets > 0
              THEN Min(proxy.verified_targets * 2000, 10000) ELSE 0
    IN  Round3(Min(s1 + s2 + s3 + s4 + s5, 100000))

-----------------------------------------------------------------------------
(* sources.py: _merge_and_deduplicate                                      *)

_anon_rank(anonymity) ==
    CASE anonymity = "elite" -> 3
      [] anonymity = "anonymous" -> 2
      [] anonymity = "transparent" -> 1
      [] OTHER -> 0

Key(p) == <<p.ip, p.port>>

\* A faulty GroupKeys: a key is listed once per raw record.
GroupKeys_PerRecord(all_proxies) == [i \in 1..Len(all_proxies) |-> Key(all_proxies[i])]

\* The keys of the groups dict, in insertion order (first occurrence).
RECURSIVE GroupKeys(_)
GroupKeys(all_proxies) ==
    IF all_proxies = <<>> THEN <<>>
    ELSE LET init == SubSeq(all_proxies, 1, Len(all_proxies) - 1)
             last == all_proxies[Len(all_proxies)]
             ks == GroupKeys(init)
         IN  IF \E i \in 1..Len(ks) : ks[i] = Key(last) THEN ks ELSE Append(ks, Key(last))

Group(all_proxies, k) == SelectSeq(all_proxies, LAMBDA p : Key(p) = k)

\* The loop over one group, lines 211-222: acc is <<best_speed, best_reliability, best_anonymity>>.
RECURSIVE MergeLoop(_, _, _)
MergeLoop(group, i, acc) ==
    IF i > Len(group) THEN acc
    ELSE LET p == group[i]
             speed == IF p.speed_ms # NoneNum /\ (acc[1] = NoneNum \/ p.speed_ms < acc[1])
                      THEN p.speed_ms ELSE acc[1]
             rel == IF p.reliability # NoneNum /\ (acc[2] = NoneNum \/ p.reliability > acc[2])
                    THEN p.reliability ELSE acc[2]
             anon == IF p.anonymity # NoneStr /\ p.anonymity # ""
                        /\ (acc[3] = NoneStr \/ _anon_rank(p.anonymity) > _anon_rank(acc[3]))
                     THEN p.anonymity ELSE acc[3]
         IN  MergeLoop(group, i + 1, <<speed, rel, anon>>)

\* A faulty MergeGroup: the last record of the group is the base, not the first.
MergeGroup_LastBase(group) ==
    LET base == group[Len(group)]
        best == MergeLoop(group, 1, <<NoneNum, NoneNum, base.anonymity>>)
        proxy == [ip |-> base.ip, port |-> base.port, protocol |-> base.protocol,
                  anonymity |-> best[3], country |-> base.country,
                  proxy_url |-> base.proxy_url, speed_ms |-> best[1],
                  reliability |-> best[2], source_count |-> Len(group),
                  quality_score |-> 0, verified_targets |-> NoneNum,
                  cycle |-> base.cycle]
    IN  [proxy EXCEPT !.quality_score = compute_quality_score(proxy)]

MergeGroup(group) ==
    LET base == group[1]
        best == MergeLoop(group, 1, <<NoneNum, NoneNum, base.anonymity>>)
        proxy == [ip |-> base.ip, port |-> base.port, protocol |-> base.protocol,
                  anonymity |-> best[3], country |-> base.country,
                  proxy_url |-> base.proxy_url, speed_ms |-> best[1],
                  reliability |-> best[2], source_count |-> Len(group),
                  quality_score |-> 0, verified_targets |-> NoneNum,
                  cycle |-> base.cycle]
    IN  [proxy EXCEPT !.quality_score = compute_quality_score(proxy)]

\* A faulty InsertSorted: a record is put before the records of equal score.
RECURSIVE InsertSorted_Unstable(_, _)
InsertSorted_Unstable(sorted, p) ==
    IF sorted = <<>> THEN <<p>>
    ELSE LET last == sorted[Len(sorted)]
         IN  IF last.quality_score > p.quality_score THEN Append(sorted, p)
             ELSE Append(InsertSorted_Unstable(SubSeq(sorted, 1, Len(sorted) - 1), p), last)

\* list.sort(key=quality_score, reverse=True): stable, descending.
RECURSIVE InsertSorted(_, _)
InsertSorted(sorted, p) ==
    IF sorted = <<>> THEN <<p>>
    ELSE LET last == sorted[Len(sorted)]
         IN  IF last.quality_score >= p.quality_score THEN Append(sorted, p)
             ELSE Append(InsertSorted(SubSeq(sorted, 1, Len(sorted) - 1), p), last)

RECURSIVE SortByScore(_)
SortByScore(merged) ==
    IF merged = <<>> THEN <<>>
    ELSE InsertSorted(SortByScore(SubSeq(merged, 1, Len(merged) - 1)), merged[Len(merged)])

_merge_and_deduplicate(all_proxies) ==
    LET ks == GroupKeys(all_proxies)
        merged == [i \in 1..Len(ks) |-> MergeGroup(Group(all_proxies, ks[i]))]
    IN  SortByScore(merged)

-----------------------------------------------------------------------------
(* What the upstream feeds can answer                                      *)

\* type(exc).__name__ of what a source's retrieval raises (transport, status, payload).
ErrorKinds(name) ==
    CASE name = "proxifly" -> {"ConnectTimeout"}
      [] name = "vakhov" -> {"HTTPStatusError"}
      [] OTHER -> {"ReadTimeout"}

\* config.py line 33: the default sample size, and two others the environment can set.
DefaultSampleSize == 5
SampleSizes == {0, 1, DefaultSampleSize}

\* The records an adapter admits from a payload it retrieved, built in cycle c.
AdapterResults(name, c) ==
    CASE name = "proxifly" ->
            { <<Proxy("1.1.1.1", 80, "http", "elite", "US", NoneNum, 900, c)>> }
      [] name = "vakhov" ->
            { <<>>,
              <<Proxy("1.1.1.1", 80, "https", "anonymous", "DE", 120, 800, c),
                Proxy("2.2.2.2", 8080, "socks5", NoneStr, NoneStr, NoneNum, 1000, c)>> }
      [] OTHER -> { <<>> }

VariantResults(protocol, c) ==
    IF protocol = "http"
    THEN { <<>>, <<Proxy("2.2.2.2", 8080, protocol, "transparent", NoneStr, 80, NoneNum, c)>> }
    ELSE { <<>> }

-----------------------------------------------------------------------------
(* State                                                                   *)

EmptyDict == [x \in {} |-> ""]
DictSet(d, k, v) == [x \in DOMAIN d \cup {k} |-> IF x = k THEN v ELSE d[x]]

\* ProxyCache(): the dataclass defaults.
ProxyCache ==
    [proxies |-> <<>>, cached_at |-> 0, source_status |-> EmptyDict,
     spot_check_success_rate |-> NoneNum]

\* The locals of a task; data is the payload an adapter has decoded (line 43),
\* used where the adapters are modelled entry by entry. variant_ok is not a local of the program (the code only
\* logs a retrieval that failed): it tells whether one of _fetch_clearproxy's
\* retrievals has returned its list.
\* A coroutine object of the fetchers dict: not yet created, created, running
\* (awaited and suspended in its retrieval) or settled, "ok" with the list it
\* returned or "error" with the kind of exception it raised.
Coroutine(state) == [state |-> state, proxies |-> <<>>, kind |-> ""]

NoLocals ==
    [source_status |-> EmptyDict, all_proxies |-> <<>>,
     fetchers |-> [n \in SourceNames |-> Coroutine("none")],
     current |-> 0, variant |-> 0, results |-> <<>>, variant_ok |-> FALSE,
     data |-> <<>>,
     proxies |-> <<>>, sample |-> {}, wake |-> 0]

NoSnapshot == [proxies |-> <<>>, cached_at |-> -1, source_status |-> EmptyDict,
               spot_check_success_rate |-> NoneNum]

NoResponse == [handler |-> "none", count |-> 0, status |-> "none"]

REFRESH_INTERVAL_SECONDS == 1    \* one clock unit is one refresh interval

Init ==
    /\ cache = ProxyCache
    /\ now = 1
    /\ SPOT_CHECK_SAMPLE_SIZE \in SampleSizes
    /\ lifespan = "startup"
    /\ pc = [t \in Tasks |-> IF t = "startup" THEN "ready" ELSE "absent"]
    /\ loc = [t \in Tasks |-> NoLocals]
    /\ cancel = [t \in Tasks |-> FALSE]
    /\ cycles = 0
    /\ events = [t \in Tasks |-> <<>>]
    /\ pre = [t \in Tasks |-> NoSnapshot]
    /\ outcome = [t \in Tasks |-> [cycle |-> 0, result |-> "none"]]
    /\ response = NoResponse

-----------------------------------------------------------------------------
(* cache.py: ProxyCache                                                    *)

\* A faulty update: the new records are added to the list instead of replacing it.
update_Extend(c, proxies, source_status, time) ==
    [c EXCEPT !.proxies = @ \o proxies, !.cached_at = time, !.source_status = source_status]

update(c, proxies, source_status, time) ==
    [c EXCEPT !.proxies = proxies, !.cached_at = time, !.source_status = source_status]

is_empty(c) == Len(c.proxies) = 0

\* A faulty is_stale: stale as soon as the age reaches ttl.
is_stale_AtLeast(c, ttl, time) == c.cached_at = 0 \/ (time - c.cached_at) >= ttl

is_stale(c, ttl, time) == c.cached_at = 0 \/ (time - c.cached_at) > ttl

age_seconds(c, time) == IF c.cached_at = 0 THEN 0 ELSE time - c.cached_at

-----------------------------------------------------------------------------
(* sources.py: fetch_all_sources, one step per suspension point            *)

Outcomes(name, results) ==
    {[ok |-> TRUE, proxies |-> r, kind |-> ""] : r \in results}
        \cup {[ok |-> FALSE, proxies |-> <<>>, kind |-> k] : k \in ErrorKinds(name)}

\* Lines 252-260: the locals, and the three coroutine objects, created and not
\* yet started; line 264 then awaits the first, which starts it.
AwaitCoro(l, i) ==
    [l EXCEPT !.current = i, !.fetchers[Sources[i]] = Coroutine("running"),
              !.variant = IF Sources[i] = "clearproxy" THEN 1 ELSE 0]

Fetchers ==
    AwaitCoro([NoLocals EXCEPT !.fetchers = [n \in SourceNames |-> Coroutine("created")]], 1)

\* A faulty Settled: the returned list is assigned to all_proxies, not appended.
Settled_Assign(l, name, out) ==
    IF out.ok
    THEN [l EXCEPT !.all_proxies = out.proxies,
                   !.source_status = DictSet(@, name, "ok"),
                   !.fetchers[name] = [state |-> "ok", proxies |-> out.proxies, kind |-> ""]]
    ELSE [l EXCEPT !.source_status = DictSet(@, name, "error: " \o out.kind),
                   !.fetchers[name] = [state |-> "error", proxies |-> <<>>, kind |-> out.kind]]

\* Lines 263-270: the body of the loop once the awaited coroutine has settled.
Settled(l, name, out) ==
    IF out.ok
    THEN [l EXCEPT !.all_proxies = @ \o out.proxies,
                   !.source_status = DictSet(@, name, "ok"),
                   !.fetchers[name] = [state |-> "ok", proxies |-> out.proxies, kind |-> ""]]
    ELSE [l EXCEPT !.source_status = DictSet(@, name, "error: " \o out.kind),
                   !.fetchers[name] = [state |-> "error", proxies |-> <<>>, kind |-> out.kind]]

\* A faulty LoopDone: the loop is left one entry early.
LoopDone_Early(l) == l.current >= Len(Sources) - 1

\* Line 262: the loop is over after the last entry of the fetchers dict.
LoopDone(l) == l.current = Len(Sources)

\* _fetch_clearproxy, lines 183-187: one variant's retrieval has settled.
VariantSettled(l, out) ==
    IF out.ok THEN [l EXCEPT !.results = @ \o out.proxies, !.variant_ok = TRUE] ELSE l

IsSettled(coro) == coro.state \in {"ok", "error"}
IsStarted(coro) == coro.state \in {"running", "ok", "error"}

-----------------------------------------------------------------------------
(* verification.py: spot_check_proxies                                     *)

\* random.sample(proxies, k): the positions drawn (their order does not reach the ratio).
Samples(proxies, k) == {s \in SUBSET (1..Len(proxies)) : Cardinality(s) = k}

\* Lines 58 and 64 raise for a sample size below 1 on a non-empty list:
\* random.sample refuses a negative size, and 0 / len([]) divides by zero.
SpotCheckRaises(proxies, sample_size) == proxies # <<>> /\ Min(sample_size, Len(proxies)) <= 0

\* Lines 63-64, in thousandths.
SuccessRate(sample, results) ==
    (Cardinality({i \in sample : results[i]}) * 1000) \div Cardinality(sample)

-----------------------------------------------------------------------------
(* main.py: refresh_cache, _periodic_refresh                               *)

Suspended(t) == pc[t] \in {"sleep", "adapter", "closing", "probing"}
InCycle(t) == pc[t] \in {"adapter", "closing", "probing"}

\* Where the task goes when refresh_cache returns: wait_for's task is over,
\* the loop of _periodic_refresh sleeps again.
AfterCycle(t) == IF t = "startup" THEN "done" ELSE "sleep"

\* A faulty AfterException: no handler, the exception leaves refresh_cache and
\* ends the periodic task (lifespan's own handler covers the startup cycle).
AfterException_Propagates(t) == IF t = "startup" THEN "done" ELSE "crashed"

\* Lines 50-51: except Exception logs and refresh_cache returns normally.
AfterException(t) == AfterCycle(t)

\* A faulty ShouldWrite: every cycle writes what it fetched.
ShouldWrite_Always(proxies, c) == TRUE

\* Line 37.
ShouldWrite(proxies, c) == proxies # <<>> \/ is_empty(c)

\* A faulty KeepStale: the zero-record branch leaves the cache alone.
KeepStale_Nothing(c, source_status) == c

\* A faulty KeepStale: the zero-record branch also stamps the capture time.
KeepStale_Touch(c, source_status) ==
    [c EXCEPT !.source_status = source_status, !.cached_at = now]

\* Line 48.
KeepStale(c, source_status) == [c EXCEPT !.source_status = source_status]

\* Line 40.
StoreRate(c, rate) == [c EXCEPT !.spot_check_success_rate = rate]

Finish(t, next, id, result, log) ==
    /\ pc' = [pc EXCEPT ![t] = next]
    /\ loc' = [loc EXCEPT ![t] =
                 [NoLocals EXCEPT !.wake = IF next = "sleep"
                                           THEN now + REFRESH_INTERVAL_SECONDS ELSE 0]]
    /\ outcome' = [outcome EXCEPT ![t] = [cycle |-> id, result |-> result]]
    /\ events' = [events EXCEPT ![t] = log]
    /\ pre' = [pre EXCEPT ![t] = NoSnapshot]

\* refresh_cache is entered (by wait_for's task, or when the loop's sleep is
\* over) and runs to the first retrieval; httpx.AsyncClient() may itself raise.
StartRefresh(t) ==
    /\ ~cancel[t]
    /\ \/ t = "startup" /\ lifespan = "startup" /\ pc[t] = "ready"
       \/ t = "periodic" /\ pc[t] = "sleep" /\ now >= loc[t].wake
    /\ cycles' = cycles + 1
    /\ \/ /\ pc' = [pc EXCEPT ![t] = "adapter"]
          /\ loc' = [loc EXCEPT ![t] = Fetchers]
          /\ events' = [events EXCEPT ![t] = <<"start:" \o Sources[1]>>]
          /\ pre' = [pre EXCEPT ![t] = cache]
          /\ outcome' = [outcome EXCEPT ![t] = [cycle |-> cycles + 1, result |-> "running"]]
       \/ Finish(t, AfterException(t), cycles + 1, "exception", <<"raise">>)
    /\ response' = NoResponse
    /\ UNCHANGED <<cache, now, SPOT_CHECK_SAMPLE_SIZE, lifespan, cancel>>

\* The retrieval of proxifly or vakhov settles; the loop records it and awaits
\* the next coroutine.
AdapterSettle(t) ==
    /\ pc[t] = "adapter" /\ ~cancel[t]
    /\ Sources[loc[t].current] # "clearproxy"
    /\ LET name == Sources[loc[t].current] IN
       \E out \in Outcomes(name, AdapterResults(name, outcome[t].cycle)) :
          LET l == Settled(loc[t], name, out) IN
          IF LoopDone(l)
          THEN /\ loc' = [loc EXCEPT ![t] = l]
               /\ pc' = [pc EXCEPT ![t] = "closing"]
               /\ events' = [events EXCEPT ![t] = Append(@, "settled:" \o name)]
          ELSE /\ loc' = [loc EXCEPT ![t] = AwaitCoro(l, l.current + 1)]
               /\ pc' = pc
               /\ events' = [events EXCEPT ![t] =
                               @ \o <<"settled:" \o name, "start:" \o Sources[l.current + 1]>>]
    /\ response' = NoResponse
    /\ UNCHANGED <<cache, now, SPOT_CHECK_SAMPLE_SIZE, lifespan, cancel, cycles,
                   pre, outcome>>

\* One of clearproxy's three retrievals settles; after the third the adapter
\* returns, the loop ends and the client session is closed.
VariantSettle(t) ==
    /\ pc[t] = "adapter" /\ ~cancel[t]
    /\ Sources[loc[t].current] = "clearproxy"
    /\ LET v == loc[t].variant IN
       \E out \in Outcomes("clearproxy", VariantResults(ClearproxyVariants[v], outcome[t].cycle)) :
          LET l == VariantSettled(loc[t], out) IN
          IF v < Len(ClearproxyVariants)
          THEN /\ loc' = [loc EXCEPT ![t] = [l EXCEPT !.variant = v + 1]]
               /\ UNCHANGED <<pc, events>>
          ELSE LET done == Settled(l, "clearproxy",
                                   [ok |-> TRUE, proxies |-> l.results, kind |-> ""])
               IN  /\ loc' = [loc EXCEPT ![t] = done]
                   /\ pc' = [pc EXCEPT ![t] = "closing"]
                   /\ events' = [events EXCEPT ![t] = Append(@, "settled:clearproxy")]
    /\ response' = NoResponse
    /\ UNCHANGED <<cache, now, SPOT_CHECK_SAMPLE_SIZE, lifespan, cancel, cycles,
                   pre, outcome>>

\* The session is closed: lines 272-274 merge and return, and refresh_cache
\* (lines 37-49) writes the cache up to the spot check's gather, or keeps it.
ClientClosed(t) ==
    /\ pc[t] = "closing" /\ ~cancel[t]
    /\ LET proxies == _merge_and_deduplicate(loc[t].all_proxies)
           source_status == loc[t].source_status
           id == outcome[t].cycle
           log == Append(events[t], "merge")
       IN  IF ShouldWrite(proxies, cache)
           THEN LET written == update(cache, proxies, source_status, now) IN
                IF proxies = <<>>
                THEN /\ cache' = StoreRate(written, 0)
                     /\ Finish(t, AfterCycle(t), id, "written",
                               log \o <<"update", "spot_check", "rate">>)
                ELSE IF SpotCheckRaises(proxies, SPOT_CHECK_SAMPLE_SIZE)
                THEN /\ cache' = written
                     /\ Finish(t, AfterException(t), id, "exception",
                               log \o <<"update", "spot_check", "raise">>)
                ELSE \E sample \in Samples(proxies, Min(SPOT_CHECK_SAMPLE_SIZE, Len(proxies))) :
                     /\ cache' = written
                     /\ pc' = [pc EXCEPT ![t] = "probing"]
                     /\ loc' = [loc EXCEPT ![t].proxies = proxies, ![t].sample = sample]
                     /\ events' = [events EXCEPT ![t] = log \o <<"update", "spot_check">>]
                     /\ UNCHANGED <<pre, outcome>>
           ELSE /\ cache' = KeepStale(cache, source_status)
                /\ Finish(t, AfterCycle(t), id, "kept_stale", Append(log, "keep_stale"))
    /\ response' = NoResponse
    /\ UNCHANGED <<now, SPOT_CHECK_SAMPLE_SIZE, lifespan, cancel, cycles>>

\* Every probe of the sample has settled (a probe that raises returns False).
ProbesSettle(t) ==
    /\ pc[t] = "probing" /\ ~cancel[t]
    /\ \E results \in [loc[t].sample -> BOOLEAN] :
          /\ cache' = StoreRate(cache, SuccessRate(loc[t].sample, results))
          /\ Finish(t, AfterCycle(t), outcome[t].cycle, "written", Append(events[t], "rate"))
    /\ response' = NoResponse
    /\ UNCHANGED <<now, SPOT_CHECK_SAMPLE_SIZE, lifespan, cancel, cycles>>

\* CancelledError is raised at the suspension point; it is a BaseException, so
\* no except Exception of the cycle catches it and the task ends cancelled.
DeliverCancel(t) ==
    /\ cancel[t] /\ Suspended(t)
    /\ cancel' = [cancel EXCEPT ![t] = FALSE]
    /\ pc' = [pc EXCEPT ![t] = "cancelled"]
    /\ loc' = [loc EXCEPT ![t] = NoLocals]
    /\ outcome' = [outcome EXCEPT ![t] =
                     IF InCycle(t) THEN [@ EXCEPT !.result = "cancelled"] ELSE @]
    /\ pre' = [pre EXCEPT ![t] = NoSnapshot]
    /\ response' = NoResponse
    /\ UNCHANGED <<cache, now, SPOT_CHECK_SAMPLE_SIZE, lifespan, cycles, events>>

-----------------------------------------------------------------------------
(* main.py: lifespan                                                       *)

\* A faulty WaitForReturned: TimeoutError is raised as soon as the task is
\* asked to cancel, without waiting for it to finish.
WaitForReturned_NoWait == pc["startup"] \in {"done", "cancelled"} \/ cancel["startup"]

\* Line 66: wait_for returns or raises TimeoutError only once its task is over
\* (on a timeout it cancels the task and waits for the cancellation to land).
WaitForReturned == pc["startup"] \in {"done", "cancelled"}

\* A faulty HasStartupTimeout: refresh_cache is awaited with no timeout.
HasStartupTimeout_None == FALSE

\* Line 66: wait_for is given a timeout (STARTUP_TIMEOUT_SECONDS is an int, never None).
HasStartupTimeout == TRUE

\* The startup timeout expires while the first cycle is in flight.
StartupTimeout ==
    /\ lifespan = "startup"
    /\ HasStartupTimeout
    /\ InCycle("startup") /\ ~cancel["startup"]
    /\ cancel' = [cancel EXCEPT !["startup"] = TRUE]
    /\ response' = NoResponse
    /\ UNCHANGED <<cache, now, SPOT_CHECK_SAMPLE_SIZE, lifespan, pc, loc, cycles,
                   events, pre, outcome>>

\* Lines 67-73: the handlers, create_task, yield; the new task runs to its sleep.
CreatePeriodicTask ==
    /\ lifespan = "startup"
    /\ WaitForReturned
    /\ lifespan' = "serving"
    /\ pc' = [pc EXCEPT !["periodic"] = "sleep"]
    /\ loc' = [loc EXCEPT !["periodic"].wake = now + REFRESH_INTERVAL_SECONDS]
    /\ response' = NoResponse
    /\ UNCHANGED <<cache, now, SPOT_CHECK_SAMPLE_SIZE, cancel, cycles, events, pre,
                   outcome>>

\* Lines 76-79: cancel() has no effect on a task that is already over.
Shutdown ==
    /\ lifespan = "serving"
    /\ lifespan' = "stopping"
    /\ cancel' = [cancel EXCEPT !["periodic"] = Suspended("periodic")]
    /\ response' = NoResponse
    /\ UNCHANGED <<cache, now, SPOT_CHECK_SAMPLE_SIZE, pc, loc, cycles, events, pre,
                   outcome>>

\* A faulty TaskOver: the lifespan does not await the task it has cancelled.
TaskOver_NoAwait(t) == TRUE

\* Line 79: await task returns or raises only once the task is over.
TaskOver(t) == ~Suspended(t)

\* Lines 79-81: the awaited task is over; only CancelledError is swallowed.
ShutdownComplete ==
    /\ lifespan = "stopping"
    /\ TaskOver("periodic")
    /\ lifespan' = IF pc["periodic"] = "crashed" THEN "failed" ELSE "exited"
    /\ response' = NoResponse
    /\ UNCHANGED <<cache, now, SPOT_CHECK_SAMPLE_SIZE, pc, loc, cancel, cycles, events,
                   pre, outcome>>

-----------------------------------------------------------------------------
(* main.py: the request handlers                                           *)

Take(seq, n) == SubSeq(seq, 1, Min(n, Len(seq)))

filter_proxies(proxies, protocol, country, anonymity, min_score, limit) ==
    LET r1 == IF protocol # NoneStr /\ protocol # ""
              THEN SelectSeq(proxies, LAMBDA px : px.protocol = protocol) ELSE proxies
        r2 == IF country # NoneStr /\ country # ""
              THEN SelectSeq(r1, LAMBDA px : px.country # NoneStr /\ px.country = country)
              ELSE r1
        r3 == IF anonymity # NoneStr /\ anonymity # ""
              THEN SelectSeq(r2, LAMBDA px : px.anonymity # NoneStr /\ px.anonymity = anonymity)
              ELSE r2
        r4 == IF min_score > 0
              THEN SelectSeq(r3, LAMBDA px : px.quality_score >= min_score) ELSE r3
    IN  IF limit > 0 THEN Take(r4, limit) ELSE r4

get_proxies ==
    /\ lifespan = "serving"
    /\ \E protocol \in {NoneStr, "http"}, limit \in {0, 1} :
          response' = [handler |-> "get_proxies",
                       count |-> Len(filter_proxies(cache.proxies, protocol, NoneStr,
                                                    NoneStr, 0, limit)),
                       status |-> "none"]
    /\ UNCHANGED <<cache, now, SPOT_CHECK_SAMPLE_SIZE, lifespan, pc, loc, cancel, cycles,
                   events, pre, outcome>>

HealthStatus(c) ==
    IF is_empty(c) THEN "unhealthy"
    ELSE IF c.spot_check_success_rate # NoneNum /\ c.spot_check_success_rate < 500
         THEN "degraded" ELSE "healthy"

health ==
    /\ lifespan = "serving"
    /\ response' = [handler |-> "health", count |-> Len(cache.proxies),
                    status |-> HealthStatus(cache)]
    /\ UNCHANGED <<cache, now, SPOT_CHECK_SAMPLE_SIZE, lifespan, pc, loc, cancel, cycles,
                   events, pre, outcome>>

-----------------------------------------------------------------------------
(* The clock                                                               *)

Tick ==
    /\ lifespan # "exited"
    /\ now < MaxTime
    /\ now' = now + 1
    /\ response' = NoResponse
    /\ UNCHANGED <<cache, SPOT_CHECK_SAMPLE_SIZE, lifespan, pc, loc, cancel, cycles,
                   events, pre, outcome>>

-----------------------------------------------------------------------------

Next ==
    \/ \E t \in Tasks : StartRefresh(t)
    \/ \E t \in Tasks : AdapterSettle(t)
    \/ \E t \in Tasks : VariantSettle(t)
    \/ \E t \in Tasks : ClientClosed(t)
    \/ \E t \in Tasks : ProbesSettle(t)
    \/ \E t \in Tasks : DeliverCancel(t)
    \/ StartupTimeout
    \/ CreatePeriodicTask
    \/ Shutdown
    \/ ShutdownComplete
    \/ get_proxies
    \/ health
    \/ Tick

Spec == Init /\ [][Next]_vars

\* The event loop runs a task that is ready, the timer of wait_for fires, and a
\* cancellation is delivered; nothing promises that a retrieval ever settles.
FairSpec ==
    /\ Spec
    /\ WF_vars(StartRefresh("startup"))
    /\ WF_vars(StartupTimeout)
    /\ WF_vars(DeliverCancel("startup"))
    /\ WF_vars(CreatePeriodicTask)

-----------------------------------------------------------------------------
(* The merge engine on its own: fetch_all_sources hands it the raw list of *)
(* one cycle, refresh_cache stores what it returns in the empty cache.     *)

Addresses == {<<"1.1.1.1", 80>>, <<"2.2.2.2", 8080>>}

\* Raw records an adapter can emit for an address: proxifly never sets a speed,
\* vakhov always sets a reliability of at least MIN_RELIABILITY_RATIO and a
\* speed only for a positive delay, clearproxy never sets a reliability.
FeedFields(name) ==
    CASE name = "proxifly" ->
            { [protocol |-> "http", anonymity |-> "transparent", country |-> "US",
               speed_ms |-> NoneNum, reliability |-> 600],
              [protocol |-> "https", anonymity |-> "elite", country |-> NoneStr,
               speed_ms |-> NoneNum, reliability |-> NoneNum] }
      [] name = "vakhov" ->
            { [protocol |-> "socks5", anonymity |-> NoneStr, country |-> "DE",
               speed_ms |-> 120, reliability |-> 900],
              [protocol |-> "http", anonymity |-> "anonymous", country |-> NoneStr,
               speed_ms |-> 80, reliability |-> 700] }
      [] OTHER ->
            { [protocol |-> "http", anonymity |-> "elite", country |-> NoneStr,
               speed_ms |-> 200, reliability |-> NoneNum],
              [protocol |-> "socks5", anonymity |-> NoneStr, country |-> "FR",
               speed_ms |-> NoneNum, reliability |-> NoneNum] }

FeedRecords(name) ==
    { Proxy(a[1], a[2], f.protocol, f.anonymity, f.country, f.speed_ms, f.reliability, 1) :
        a \in Addresses, f \in FeedFields(name) }

SourceIndex(name) == CHOOSE i \in 1..Len(Sources) : Sources[i] = name
VariantIndex(protocol) ==
    IF \E i \in 1..Len(ClearproxyVariants) : ClearproxyVariants[i] = protocol
    THEN CHOOSE i \in 1..Len(ClearproxyVariants) : ClearproxyVariants[i] = protocol
    ELSE 0

\* all_proxies is extended source by source (sources.py line 265), and
\* clearproxy's list variant by variant (line 185).
InFeedOrder(raw, feeds, name, p) ==
    IF raw = <<>> THEN TRUE
    ELSE LET last == raw[Len(raw)]
             from == feeds[Len(feeds)]
         IN  \/ SourceIndex(from) < SourceIndex(name)
             \/ /\ from = name
                /\ name = "clearproxy" =>
                      VariantIndex(last.protocol) <= VariantIndex(p.protocol)

MergeInit ==
    /\ cache = ProxyCache
    /\ now = 1
    /\ SPOT_CHECK_SAMPLE_SIZE = DefaultSampleSize
    /\ lifespan = "startup"
    /\ pc = [t \in Tasks |-> IF t = "startup" THEN "adapter" ELSE "absent"]
    /\ loc = [t \in Tasks |-> NoLocals]
    /\ cancel = [t \in Tasks |-> FALSE]
    /\ cycles = 1
    /\ events = [t \in Tasks |-> <<>>]
    /\ pre = [t \in Tasks |-> NoSnapshot]
    /\ outcome = [t \in Tasks |-> [cycle |-> 0, result |-> "none"]]
    /\ response = NoResponse

\* An adapter's list holds one more record; the log keeps the name of the feed.
Report(name, p) ==
    /\ pc["startup"] = "adapter"
    /\ Len(loc["startup"].all_proxies) < MaxRaw
    /\ InFeedOrder(loc["startup"].all_proxies, events["startup"], name, p)
    /\ loc' = [loc EXCEPT !["startup"].all_proxies = Append(@, p)]
    /\ events' = [events EXCEPT !["startup"] = Append(@, name)]
    /\ UNCHANGED <<cache, now, SPOT_CHECK_SAMPLE_SIZE, lifespan, pc, cancel, cycles, pre,
                   outcome, response>>

\* sources.py line 272 and main.py line 38; every adapter has returned its list
\* (an empty one if it reported nothing).
MergeAndStore ==
    /\ pc["startup"] = "adapter"
    /\ pc' = [pc EXCEPT !["startup"] = "merged"]
    /\ cache' = update(cache, _merge_and_deduplicate(loc["startup"].all_proxies),
                       [n \in SourceNames |-> "ok"], now)
    /\ UNCHANGED <<now, SPOT_CHECK_SAMPLE_SIZE, lifespan, loc, cancel, cycles, events, pre,
                   outcome, response>>

MergeNext ==
    \/ \E name \in SourceNames : \E p \in FeedRecords(name) : Report(name, p)
    \/ MergeAndStore

MergeSpec == MergeInit /\ [][MergeNext]_vars

-----------------------------------------------------------------------------
(* The scorer on its own: one canonical record, scored as in line 235 of   *)
(* sources.py.                                                             *)

\* Valid canonical records: source_count >= 1, reliability None or in 0..1,
\* speed None or not negative, anonymity None or a tag, any verified targets.
CanonicalRecords ==
    { [Proxy("1.1.1.1", 80, "http", anonymity, NoneStr, speed_ms, reliability, 1)
         EXCEPT !.source_count = source_count, !.verified_targets = verified_targets] :
        anonymity \in {NoneStr, "transparent", "anonymous", "elite"},
        speed_ms \in {NoneNum, 0, 1, 80, 4999, 5000, 6000},
        reliability \in {NoneNum, 0, 333, 705, 1000},
        source_count \in 1..MaxCount,
        verified_targets \in {NoneNum, 0, 1, 5, MaxTargets} }

ScoreInit ==
    /\ cache = ProxyCache
    /\ now = 1
    /\ SPOT_CHECK_SAMPLE_SIZE = DefaultSampleSize
    /\ lifespan = "startup"
    /\ pc = [t \in Tasks |-> IF t = "startup" THEN "scoring" ELSE "absent"]
    /\ \E proxy \in CanonicalRecords :
          loc = [t \in Tasks |-> IF t = "startup" THEN [NoLocals EXCEPT !.proxies = <<proxy>>]
                                                  ELSE NoLocals]
    /\ cancel = [t \in Tasks |-> FALSE]
    /\ cycles = 1
    /\ events = [t \in Tasks |-> <<>>]
    /\ pre = [t \in Tasks |-> NoSnapshot]
    /\ outcome = [t \in Tasks |-> [cycle |-> 0, result |-> "none"]]
    /\ response = NoResponse

\* proxy.quality_score = compute_quality_score(proxy)
Score ==
    /\ pc["startup"] = "scoring"
    /\ pc' = [pc EXCEPT !["startup"] = "scored"]
    /\ loc' = [loc EXCEPT !["startup"].proxies[1].quality_score =
                                compute_quality_score(loc["startup"].proxies[1])]
    /\ UNCHANGED <<cache, now, SPOT_CHECK_SAMPLE_SIZE, lifespan, cancel, cycles, events,
                   pre, outcome, response>>

ScoreNext == Score

ScoreSpec == ScoreInit /\ [][ScoreNext]_vars

-----------------------------------------------------------------------------
(* The cache on its own: update and is_stale against the clock. Here       *)
(* events["startup"] holds the time of the latest update, if there is one. *)

TTLs == -1..MaxClock

StaleInit ==
    /\ cache = ProxyCache
    /\ now = 1
    /\ SPOT_CHECK_SAMPLE_SIZE = DefaultSampleSize
    /\ lifespan = "serving"
    /\ pc = [t \in Tasks |-> IF t = "startup" THEN "done" ELSE "sleep"]
    /\ loc = [t \in Tasks |-> NoLocals]
    /\ cancel = [t \in Tasks |-> FALSE]
    /\ cycles = 0
    /\ events = [t \in Tasks |-> <<>>]
    /\ pre = [t \in Tasks |-> NoSnapshot]
    /\ outcome = [t \in Tasks |-> [cycle |-> 0, result |-> "none"]]
    /\ response = NoResponse

CacheUpdate ==
    /\ cache' = update(cache, <<>>, [n \in SourceNames |-> "ok"], now)
    /\ events' = [events EXCEPT !["startup"] = <<now>>]
    /\ response' = NoResponse
    /\ UNCHANGED <<now, SPOT_CHECK_SAMPLE_SIZE, lifespan, pc, loc, cancel, cycles, pre,
                   outcome>>

AskStale(ttl) ==
    /\ response' = [handler |-> "is_stale", count |-> ttl,
                    status |-> IF is_stale(cache, ttl, now) THEN "stale" ELSE "fresh"]
    /\ UNCHANGED <<cache, now, SPOT_CHECK_SAMPLE_SIZE, lifespan, pc, loc, cancel, cycles,
                   events, pre, outcome>>

ClockTick ==
    /\ now < MaxClock
    /\ now' = now + 1
    /\ response' = NoResponse
    /\ UNCHANGED <<cache, SPOT_CHECK_SAMPLE_SIZE, lifespan, pc, loc, cancel, cycles,
                   events, pre, outcome>>

StaleNext ==
    \/ CacheUpdate
    \/ \E ttl \in TTLs : AskStale(ttl)
    \/ ClockTick

StaleSpec == StaleInit /\ [][StaleNext]_vars

-----------------------------------------------------------------------------
(* The adapters on their own: a decoded payload, entry by entry.           *)

\* JSON values of an entry's keys: a string, an integer, null, or no such key.
JStr(s) == [t |-> "str", n |-> 0, s |-> s]
JInt(n) == [t |-> "int", n |-> n, s |-> ""]
JNull == [t |-> "null", n |-> 0, s |-> ""]
JAbsent == [t |-> "absent", n |-> 0, s |-> ""]

\* An entry of the payload: a JSON object with these keys (and no other), or a
\* JSON string.
Object(ip, port, protocol, anonymity) ==
    [shape |-> "object", ip |-> ip, port |-> port, protocol |-> protocol,
     anonymity |-> anonymity, score |-> JInt(9), speed_ms |-> JInt(100),
     checks_up |-> JInt(9), checks_down |-> JInt(1), delay |-> JInt(100),
     lastseen |-> JInt(10)]

NotAnObject ==
    [shape |-> "string", ip |-> JAbsent, port |-> JAbsent, protocol |-> JAbsent,
     anonymity |-> JAbsent, score |-> JAbsent, speed_ms |-> JAbsent,
     checks_up |-> JAbsent, checks_down |-> JAbsent, delay |-> JAbsent,
     lastseen |-> JAbsent]

GoodEntries ==
    { Object(JStr("1.1.1.1"), JInt(80), JStr("HTTP"), JStr("Elite")),
      Object(JStr("2.2.2.2"), JStr("8080"), JAbsent, JAbsent),
      Object(JStr("4.4.4.4"), JInt(80), JStr("FTP"), JStr("Weird")) }

BadEntries ==
    { Object(JStr("3.3.3.3"), JAbsent, JStr("http"), JAbsent),        \* no port
      Object(JStr("3.3.3.3"), JStr("abc"), JStr("http"), JAbsent),    \* port not a number
      Object(JStr("3.3.3.3"), JNull, JStr("http"), JAbsent),          \* port of a wrong type
      Object(JStr("3.3.3.3"), JInt(80), JStr("http"), JInt(5)),       \* anonymity of a wrong type
      NotAnObject }

Entries == GoodEntries \cup BadEntries

MIN_RELIABILITY_RATIO == 700
MAX_RESPONSE_TIME_MS == 5000

\* int(s) of the strings in use; str.lower() of the strings in use.
Numerals == [s \in {"80", "8080"} |-> IF s = "80" THEN 80 ELSE 8080]
Lower(s) ==
    CASE s = "HTTP" -> "http" [] s = "Elite" -> "elite"
      [] s = "FTP" -> "ftp" [] s = "Weird" -> "weird" [] OTHER -> s

\* int(x) and float(x): the value, or the exception raised.
ToInt(x) ==
    CASE x.t = "int" -> [exc |-> "", n |-> x.n]
      [] x.t = "str" -> IF x.s \in DOMAIN Numerals THEN [exc |-> "", n |-> Numerals[x.s]]
                        ELSE [exc |-> "ValueError", n |-> 0]
      [] OTHER -> [exc |-> "TypeError", n |-> 0]

\* entry.get(key, default) followed by int() or float().
GetInt(x, default) == IF x.t = "absent" THEN [exc |-> "", n |-> default] ELSE ToInt(x)

\* int(entry["port"])
PortOf(entry) == IF entry.port.t = "absent" THEN [exc |-> "KeyError", n |-> 0]
                 ELSE ToInt(entry.port)

ANONYMITY_MAP(s) ==
    CASE s \in {"transparent", "anonymous", "elite"} -> s
      [] s \in {"high_anonymous", "high anonymous", "elite proxy"} -> "elite"
      [] OTHER -> NoneStr

\* _normalize_anonymity(entry.get("anonymity")): raw.lower() is an attribute
\* error on a value that is no string.
_normalize_anonymity(raw) ==
    CASE raw.t \in {"absent", "null"} -> [exc |-> "", s |-> NoneStr]
      [] raw.t = "str" -> [exc |-> "", s |-> ANONYMITY_MAP(Lower(raw.s))]
      [] OTHER -> [exc |-> "AttributeError", s |-> NoneStr]

\* Proxy(ip=...): pydantic's ValidationError, a ValueError, for an ip that is no string.
Validation(entry) == IF entry.ip.t = "str" THEN "" ELSE "ValueError"

\* Lines 70, 131, 171: what ends the entry and lets the loop go on.
Caught(exc) == exc \in {"continue", "KeyError", "ValueError", "TypeError"}

First(steps) ==
    IF \E i \in 1..Len(steps) : steps[i] # ""
    THEN steps[CHOOSE i \in 1..Len(steps) :
                  steps[i] # "" /\ \A j \in 1..(i - 1) : steps[j] = ""]
    ELSE ""

\* One pass of the loop body: the statements in order, each "" when it
\* passes, "continue" when it filters the entry out, or the exception it
\* raises; the first that does not pass ends the entry.
EntryResult(steps, proxy) ==
    LET end == First(steps) IN
    IF end = "" THEN [exc |-> "", proxies |-> <<proxy>>]
    ELSE IF Caught(end) THEN [exc |-> "", proxies |-> <<>>]
    ELSE [exc |-> end, proxies |-> <<>>]

\* _fetch_proxifly, lines 47-71.
ProxiflyEntry(entry, c) ==
    LET score == entry.score
        protocol == IF entry.protocol.t = "str" /\ entry.protocol.s # ""
                    THEN Lower(entry.protocol.s) ELSE "http"
        port == PortOf(entry)
        anonymity == _normalize_anonymity(entry.anonymity)
    IN  EntryResult(
          << IF entry.shape # "object" THEN "AttributeError" ELSE "",
             CASE score.t = "str" -> "TypeError"
               [] score.t = "int" /\ score.n < 1 -> "continue"
               [] OTHER -> "",
             IF entry.protocol.t = "int" /\ entry.protocol.n # 0
             THEN "AttributeError" ELSE "",
             IF entry.ip.t = "absent" THEN "KeyError" ELSE "",
             port.exc,
             anonymity.exc,
             Validation(entry) >>,
          Proxy(entry.ip.s, port.n, protocol, anonymity.s, NoneStr, NoneNum,
                IF score.t = "int" THEN Min(score.n * 100, 1000) ELSE NoneNum, c))

\* _fetch_vakhov, lines 86-132 (the entries hold none of the keys host,
\* socks5, socks4, ssl, anon and country_code).
VakhovEntry(entry, c) ==
    LET checks_up == GetInt(entry.checks_up, 0)
        checks_down == GetInt(entry.checks_down, 0)
        total == checks_up.n + checks_down.n
        reliability == IF total > 0 THEN (2000 * checks_up.n + total) \div (2 * total) ELSE 0
        delay == GetInt(entry.delay, 0)
        last_seen == GetInt(entry.lastseen, 99999)
        port == PortOf(entry)
    IN  EntryResult(
          << IF entry.shape # "object" THEN "AttributeError" ELSE "",
             checks_up.exc,
             checks_down.exc,
             IF reliability < MIN_RELIABILITY_RATIO THEN "continue" ELSE "",
             delay.exc,
             IF delay.n > MAX_RESPONSE_TIME_MS THEN "continue" ELSE "",
             last_seen.exc,
             IF last_seen.n > 3600 THEN "continue" ELSE "",
             IF \/ entry.ip.t \in {"absent", "null"}
                \/ (entry.ip.t = "str" /\ entry.ip.s = "")
                \/ (entry.ip.t = "int" /\ entry.ip.n = 0)
             THEN "continue" ELSE "",
             port.exc,
             Validation(entry) >>,
          Proxy(entry.ip.s, port.n, "http", NoneStr, NoneStr,
                IF delay.n > 0 THEN delay.n ELSE NoneNum, reliability, c))

\* _fetch_clearproxy_single, lines 151-172.
ClearproxyEntry(entry, protocol, c) ==
    LET speed == IF entry.speed_ms.t \in {"absent", "null"} THEN [exc |-> "", n |-> NoneNum]
                 ELSE ToInt(entry.speed_ms)
        port == PortOf(entry)
        anonymity == _normalize_anonymity(entry.anonymity)
    IN  EntryResult(
          << IF entry.shape # "object" THEN "AttributeError" ELSE "",
             speed.exc,
             IF speed.n # NoneNum /\ speed.n > MAX_RESPONSE_TIME_MS THEN "continue" ELSE "",
             IF entry.ip.t = "absent" THEN "KeyError" ELSE "",
             port.exc,
             anonymity.exc,
             Validation(entry) >>,
          Proxy(entry.ip.s, port.n, protocol, anonymity.s, NoneStr, speed.n, NoneNum, c))

ParseEntry(name, entry, c) ==
    CASE name = "proxifly" -> ProxiflyEntry(entry, c)
      [] name = "vakhov" -> VakhovEntry(entry, c)
      [] OTHER -> ClearproxyEntry(entry, ClearproxyVariants[1], c)

\* The loop over the payload: the list returned, or the exception that leaves
\* the adapter.
RECURSIVE ParseLoop(_, _, _, _)
ParseLoop(name, data, i, proxies) ==
    IF i > Len(data) THEN [ok |-> TRUE, proxies |-> proxies, kind |-> ""]
    ELSE LET r == ParseEntry(name, data[i], 1) IN
         IF r.exc # "" THEN [ok |-> FALSE, proxies |-> <<>>, kind |-> r.exc]
         ELSE ParseLoop(name, data, i + 1, proxies \o r.proxies)

ParseInit ==
    /\ cache = ProxyCache
    /\ now = 1
    /\ SPOT_CHECK_SAMPLE_SIZE = DefaultSampleSize
    /\ lifespan = "startup"
    /\ pc = [t \in Tasks |-> IF t = "startup" THEN "adapter" ELSE "absent"]
    /\ loc = [t \in Tasks |-> NoLocals]
    /\ cancel = [t \in Tasks |-> FALSE]
    /\ cycles = 1
    /\ events = [t \in Tasks |-> <<>>]
    /\ pre = [t \in Tasks |-> NoSnapshot]
    /\ outcome = [t \in Tasks |-> [cycle |-> 0, result |-> "none"]]
    /\ response = NoResponse

\* The payload the feed serves holds one more entry.
Serve(entry) ==
    /\ pc["startup"] = "adapter"
    /\ Len(loc["startup"].data) < MaxEntries
    /\ loc' = [loc EXCEPT !["startup"].data = Append(@, entry)]
    /\ UNCHANGED <<cache, now, SPOT_CHECK_SAMPLE_SIZE, lifespan, pc, cancel, cycles,
                   events, pre, outcome, response>>

\* The adapter of one source parses the payload and fetch_all_sources records
\* how it ended; for clearproxy the payload is that of the http variant, the
\* other two variants return nothing.
Parse(name) ==
    /\ pc["startup"] = "adapter"
    /\ pc' = [pc EXCEPT !["startup"] = "parsed"]
    /\ LET l == loc["startup"]
           out == ParseLoop(name, l.data, 1, <<>>)
       IN  loc' = [loc EXCEPT !["startup"] =
                     IF name = "clearproxy"
                     THEN LET v == VariantSettled(l, out)
                          IN  Settled(v, name, [ok |-> TRUE, proxies |-> v.results, kind |-> ""])
                     ELSE Settled(l, name, out)]
    /\ events' = [events EXCEPT !["startup"] = <<name>>]
    /\ UNCHANGED <<cache, now, SPOT_CHECK_SAMPLE_SIZE, lifespan, cancel, cycles, pre,
                   outcome, response>>

\* refresh_cache, lines 36-38: the parsed records are merged and become the
\* cache's generation.
Store ==
    /\ pc["startup"] = "parsed"
    /\ pc' = [pc EXCEPT !["startup"] = "stored"]
    /\ cache' = update(cache, _merge_and_deduplicate(loc["startup"].all_proxies),
                       loc["startup"].source_status, now)
    /\ UNCHANGED <<now, SPOT_CHECK_SAMPLE_SIZE, lifespan, loc, cancel, cycles, events, pre,
                   outcome, response>>

ParseNext ==
    \/ \E entry \in Entries : Serve(entry)
    \/ \E name \in SourceNames : Parse(name)
    \/ Store

ParseSpec == ParseInit /\ [][ParseNext]_vars

-----------------------------------------------------------------------------
(* The periodic task alone, over several refresh intervals: the startup    *)
(* cycle has written one record at time 1 and stored the ratio of its spot  *)
(* check, the lifespan serves, and no shutdown is requested.                *)

OutageInit ==
    /\ cache = StoreRate(update(ProxyCache,
                                _merge_and_deduplicate(
                                    <<Proxy("1.1.1.1", 80, "http", "elite", "US", NoneNum, 900, 1)>>),
                                [n \in SourceNames |-> "ok"], 1),
                         1000)
    /\ now = 1
    /\ SPOT_CHECK_SAMPLE_SIZE = DefaultSampleSize
    /\ lifespan = "serving"
    /\ pc = [t \in Tasks |-> IF t = "startup" THEN "done" ELSE "sleep"]
    /\ loc = [t \in Tasks |-> [NoLocals EXCEPT !.wake = IF t = "periodic"
                                                         THEN 1 + REFRESH_INTERVAL_SECONDS
                                                         ELSE 0]]
    /\ cancel = [t \in Tasks |-> FALSE]
    /\ cycles = 1
    /\ events = [t \in Tasks |-> <<>>]
    /\ pre = [t \in Tasks |-> NoSnapshot]
    /\ outcome = [t \in Tasks |-> IF t = "startup" THEN [cycle |-> 1, result |-> "written"]
                                  ELSE [cycle |-> 0, result |-> "none"]]
    /\ response = NoResponse

\* The clock of this specification.
OutageTick ==
    /\ now < MaxOutage
    /\ now' = now + 1
    /\ response' = NoResponse
    /\ UNCHANGED <<cache, SPOT_CHECK_SAMPLE_SIZE, lifespan, pc, loc, cancel, cycles,
                   events, pre, outcome>>

OutageNext ==
    \/ StartRefresh("periodic")
    \/ AdapterSettle("periodic")
    \/ VariantSettle("periodic")
    \/ ClientClosed("periodic")
    \/ ProbesSettle("periodic")
    \/ \E ttl \in TTLs : AskStale(ttl)
    \/ OutageTick

OutageSpec == OutageInit /\ [][OutageNext]_vars

-----------------------------------------------------------------------------
(* Properties                                                              *)

\* The step in which task t leaves refresh_cache (not by cancellation).
CycleEnds(t) == outcome'[t] # outcome[t] /\ outcome'[t].result \notin {"running", "cancelled"}

\* The cache as it was when the cycle that ends in this step began.
Before(t) == IF InCycle(t) THEN pre[t] ELSE cache

Merged(t) == _merge_and_deduplicate(loc[t].all_proxies)

\* C1: once the cache holds a record it holds one in every later state,
\* whatever the refresh cycles that follow do.
C1_NonEmptyStaysNonEmpty == [][cache.proxies # <<>> => cache'.proxies # <<>>]_vars

C1_Witness ==
    /\ cache.proxies # <<>>
    /\ outcome["startup"].result = "written"
    /\ outcome["periodic"].result = "kept_stale"

\* C2: a cycle whose merge yields no record while the cache holds some leaves
\* the cache's records as they were when the cycle began and stores the status
\* map of this cycle.
C2_ZeroRecordCycle ==
    [][\A t \in Tasks :
          (CycleEnds(t) /\ pc[t] = "closing" /\ Merged(t) = <<>> /\ Len(pre[t].proxies) > 0)
              => /\ cache'.proxies = pre[t].proxies
                 /\ cache'.source_status = loc[t].source_status]_vars

C2_Witness ==
    /\ outcome["periodic"].result = "kept_stale"
    /\ Len(cache.proxies) = 2
    /\ cache.proxies[1].cycle = 1
    /\ cache.source_status["proxifly"] = "error: ConnectTimeout"
    /\ cache.source_status["vakhov"] = "ok"

OneGeneration(proxies) == \A i, j \in 1..Len(proxies) : proxies[i].cycle = proxies[j].cycle

WholeUpdate ==
    (cache'.proxies # cache.proxies \/ cache'.cached_at # cache.cached_at)
        => \E t \in Tasks :
              /\ pc[t] = "closing"
              /\ \A n \in SourceNames : IsSettled(loc[t].fetchers[n])
              /\ cache'.proxies = Merged(t)
              /\ cache'.cached_at = now
              /\ cache'.source_status = loc[t].source_status

\* C3: in every state the cached records are of one cycle only, and a step that
\* changes the records or the capture timestamp installs the whole merged
\* output of a cycle whose adapters have all settled, together with that
\* cycle's status map and the current time.
C3_OneGenerationAtomicUpdate == [](OneGeneration(cache.proxies)) /\ [][WholeUpdate]_vars

C3_Witness ==
    /\ pc["periodic"] = "probing"
    /\ Len(pre["periodic"].proxies) = 2
    /\ Len(cache.proxies) = 2
    /\ cache.proxies[1].cycle = 2

\* The place of event e in a cycle's log, 0 if it has not occurred.
Pos(log, e) ==
    IF \E i \in 1..Len(log) : log[i] = e
    THEN CHOOSE i \in 1..Len(log) : log[i] = e /\ \A j \in 1..(i - 1) : log[j] # e
    ELSE 0

Precedes(log, a, b) == Pos(log, b) > 0 => (0 < Pos(log, a) /\ Pos(log, a) < Pos(log, b))

\* C4: in every cycle all three adapters have settled before the merge, the
\* merge comes before the cache write, the write before the spot check, and the
\* ratio is stored after the write of the same cycle.
C4_CycleOrder ==
    \A t \in Tasks :
       /\ \A n \in SourceNames : Precedes(events[t], "settled:" \o n, "merge")
       /\ Precedes(events[t], "merge", "update")
       /\ Precedes(events[t], "update", "spot_check")
       /\ Precedes(events[t], "spot_check", "rate")
       /\ pc[t] = "adapter" => cache = pre[t]
       /\ pc[t] = "closing" =>
             /\ cache = pre[t]
             /\ \A n \in SourceNames : IsSettled(loc[t].fetchers[n])
       /\ pc[t] = "probing" =>
             /\ \A n \in SourceNames : IsSettled(loc[t].fetchers[n])
             /\ cache.proxies = loc[t].proxies
             /\ cache.spot_check_success_rate = pre[t].spot_check_success_rate

C4_Witness ==
    /\ outcome["periodic"].result = "written"
    /\ Pos(events["periodic"], "rate") > 0
    /\ cache.proxies # <<>>
    /\ cache.proxies[1].cycle = 2
    /\ cache.spot_check_success_rate = 1000

NoOverlap ==
    /\ ~(InCycle("startup") /\ InCycle("periodic"))
    /\ pc["periodic"] # "absent" => pc["startup"] \in {"done", "cancelled"}

OnlyCycleWrites ==
    cache' # cache =>
        /\ response' = NoResponse
        /\ \E t \in Tasks : pc[t] \in {"closing", "probing"} /\ pc'[t] # pc[t]

\* C5: two refresh cycles are never in progress together, the periodic task
\* exists only once the startup cycle is over (finished or cancelled), and
\* only a step of a refresh cycle changes the cache.
C5_SingleWriter == []NoOverlap /\ [][OnlyCycleWrites]_vars

C5_Witness ==
    /\ pc["startup"] = "cancelled"
    /\ outcome["startup"].result = "cancelled"
    /\ pc["periodic"] = "probing"

LoopAlive ==
    /\ pc["periodic"] \in {"absent", "sleep", "adapter", "closing", "probing", "cancelled"}
    /\ pc["periodic"] = "cancelled" => lifespan \in {"stopping", "exited"}
    /\ lifespan # "failed"

SleepsAfterException ==
    (CycleEnds("periodic") /\ outcome'["periodic"].result = "exception")
        => /\ pc'["periodic"] = "sleep"
           /\ loc'["periodic"].wake = now + REFRESH_INTERVAL_SECONDS

\* C6: an exception raised in a cycle of the periodic loop is caught in the
\* cycle: the loop sleeps the interval again, and the periodic task is over
\* only when shutdown has cancelled it.
C6_LoopSurvivesException == []LoopAlive /\ [][SleepsAfterException]_vars

C6_Witness ==
    /\ outcome["periodic"].result = "exception"
    /\ pc["periodic"] = "sleep"
    /\ cache.proxies # <<>>
    /\ cache.proxies[1].cycle = 2

\* C7: a cycle that ends with an exception leaves the cache (records,
\* timestamp, status map, ratio) as it was when the cycle began.
C7_ExceptionKeepsCache ==
    [][\A t \in Tasks :
          (CycleEnds(t) /\ outcome'[t].result = "exception") => cache' = Before(t)]_vars

\* C8: startup completes: the lifespan reaches its yield, and from then on the
\* startup cycle is no longer in progress and the periodic task exists.
C8_StartupCompletes ==
    /\ <>(lifespan = "serving")
    /\ [](lifespan # "startup" => (pc["periodic"] # "absent" /\ ~InCycle("startup")))

C8_Witness ==
    /\ lifespan = "serving"
    /\ pc["startup"] = "cancelled"
    /\ pc["periodic"] = "sleep"
    /\ cache.proxies = <<>>

\* C9: every adapter's retrieval has been started before any adapter's
\* retrieval has settled.
C9_AllStartedBeforeAnySettles ==
    \A t \in Tasks :
       (\E n \in SourceNames : IsSettled(loc[t].fetchers[n]))
           => \A n \in SourceNames : IsStarted(loc[t].fetchers[n])

RECURSIVE Concat(_, _)
Concat(fetchers, i) ==
    IF i = 0 THEN <<>>
    ELSE Concat(fetchers, i - 1)
            \o (IF fetchers[Sources[i]].state = "ok" THEN fetchers[Sources[i]].proxies ELSE <<>>)

\* C10: when the loop of fetch_all_sources is over, every adapter has run, the
\* raw list is the concatenation, in source order, of what the adapters that
\* succeeded returned, and the status map has one entry per source: "ok" for a
\* success, "error: <kind>" for the kind that was raised.
C10_IsolatedFailures ==
    \A t \in Tasks :
       pc[t] \in {"closing", "probing"} =>
          LET l == loc[t] IN
          /\ \A n \in SourceNames : IsSettled(l.fetchers[n])
          /\ l.all_proxies = Concat(l.fetchers, Len(Sources))
          /\ DOMAIN l.source_status = SourceNames
          /\ \A n \in SourceNames :
                l.source_status[n] = IF l.fetchers[n].state = "ok" THEN "ok"
                                     ELSE "error: " \o l.fetchers[n].kind

C10_Witness ==
    \E t \in Tasks :
       /\ pc[t] = "closing"
       /\ loc[t].fetchers["proxifly"].state = "error"
       /\ loc[t].fetchers["vakhov"].state = "ok"
       /\ Len(loc[t].all_proxies) = 3

\* C11: when the loop of fetch_all_sources is over, a source is recorded "ok"
\* exactly when its retrieval returned (with or without records) and
\* "error: <kind>" when it failed; for clearproxy, "ok" is recorded only if one
\* of its three retrievals returned.
C11_StatusTellsRetrieval ==
    \A t \in Tasks :
       pc[t] \in {"closing", "probing"} =>
          LET l == loc[t] IN
          /\ \A n \in {"proxifly", "vakhov"} :
                /\ l.fetchers[n].state = "ok" => l.source_status[n] = "ok"
                /\ l.fetchers[n].state = "error" =>
                      l.source_status[n] = "error: " \o l.fetchers[n].kind
          /\ l.source_status["clearproxy"] = "ok" => l.variant_ok

\* The raw list and the merged list of the merge engine's own specification.
Raw == loc["startup"].all_proxies
IsMerged == pc["startup"] = "merged"

UniqueKeys(proxies) ==
    \A i, j \in 1..Len(proxies) : Key(proxies[i]) = Key(proxies[j]) => i = j

\* C12: no two records of the cache share an (address, port), and every
\* (address, port) of the raw list is the key of exactly one record of the
\* merged list, which holds no other key.
C12_OneRecordPerKey ==
    /\ UniqueKeys(cache.proxies)
    /\ IsMerged =>
          /\ \A i \in 1..Len(Raw) :
                Cardinality({j \in 1..Len(cache.proxies) :
                               Key(cache.proxies[j]) = Key(Raw[i])}) = 1
          /\ \A j \in 1..Len(cache.proxies) :
                \E i \in 1..Len(Raw) : Key(Raw[i]) = Key(cache.proxies[j])

C12_Witness ==
    /\ IsMerged
    /\ Len(Raw) = 3
    /\ Key(Raw[1]) = Key(Raw[3]) /\ Key(Raw[1]) # Key(Raw[2])
    /\ Len(cache.proxies) = 2

\* The places of the raw list that report the key of record r.
Reports(r) == {i \in 1..Len(Raw) : Key(Raw[i]) = Key(r)}

Least(S) == CHOOSE x \in S : \A y \in S : x <= y
Greatest(S) == CHOOSE x \in S : \A y \in S : x >= y

\* elite > anonymous > transparent > absent.
Privacy(anonymity) ==
    CASE anonymity = "elite" -> 3
      [] anonymity = "anonymous" -> 2
      [] anonymity = "transparent" -> 1
      [] anonymity = NoneStr -> 0

\* C13: a merged record has the least speed and the greatest reliability that
\* the raw records of its key state (none if none states one), the anonymity
\* tag of highest privacy among them, and the protocol, country and URL of the
\* first of them in the raw list.
C13_MergedFields ==
    IsMerged =>
       \A j \in 1..Len(cache.proxies) :
          LET r == cache.proxies[j]
              speeds == {Raw[i].speed_ms : i \in Reports(r)} \ {NoneNum}
              reliabilities == {Raw[i].reliability : i \in Reports(r)} \ {NoneNum}
              tags == {Raw[i].anonymity : i \in Reports(r)}
              first == Raw[Least(Reports(r))]
          IN  /\ r.speed_ms = IF speeds = {} THEN NoneNum ELSE Least(speeds)
              /\ r.reliability = IF reliabilities = {} THEN NoneNum
                                 ELSE Greatest(reliabilities)
              /\ r.anonymity \in tags
              /\ \A a \in tags : Privacy(r.anonymity) >= Privacy(a)
              /\ r.protocol = first.protocol
              /\ r.country = first.country
              /\ r.proxy_url = first.proxy_url

C13_Witness ==
    /\ IsMerged
    /\ Len(Raw) = 3 /\ Len(cache.proxies) = 1
    /\ Raw[1].anonymity = NoneStr /\ Raw[1].speed_ms = 120 /\ Raw[1].reliability = 900
    /\ Raw[2].anonymity = "anonymous" /\ Raw[2].speed_ms = 80
    /\ Raw[3].anonymity = "elite" /\ Raw[3].reliability = NoneNum
    /\ cache.proxies[1].speed_ms = 80
    /\ cache.proxies[1].reliability = 900
    /\ cache.proxies[1].anonymity = "elite"
    /\ cache.proxies[1].protocol = "socks5"

\* The feed that reported each record of the raw list.
Feeds == events["startup"]

\* C14: the source_count of a merged record is the number of distinct feeds
\* that reported its key, however often one feed reports it.
C14_SourceCountIsDistinctFeeds ==
    IsMerged =>
       \A j \in 1..Len(cache.proxies) :
          cache.proxies[j].source_count
              = Cardinality({Feeds[i] : i \in Reports(cache.proxies[j])})

\* The five contributions of the scorer, in hundred-thousandths.
Corroboration(p) == IF p.source_count < 3 THEN p.source_count * 10000 ELSE 30000
ReliabilityTerm(p) == IF p.reliability = NoneNum THEN 0 ELSE p.reliability * 30
SpeedTerm(p) ==
    IF p.speed_ms = NoneNum \/ p.speed_ms <= 0 \/ p.speed_ms >= 5000 THEN 0
    ELSE 20000 - 4 * p.speed_ms
AnonymityTerm(p) ==
    CASE p.anonymity = "elite" -> 10000
      [] p.anonymity = "anonymous" -> 6000
      [] p.anonymity = "transparent" -> 2000
      [] p.anonymity = NoneStr -> 0
TargetsTerm(p) ==
    IF p.verified_targets = NoneNum THEN 0
    ELSE IF p.verified_targets < 5 THEN p.verified_targets * 2000 ELSE 10000

ClampedSum(p) ==
    LET sum == Corroboration(p) + ReliabilityTerm(p) + SpeedTerm(p) + AnonymityTerm(p)
                  + TargetsTerm(p)
    IN  IF sum > 100000 THEN 100000 ELSE IF sum < 0 THEN 0 ELSE sum

\* C15: the score of a valid canonical record lies in [0, 1] and is the sum of
\* the five contributions, clamped to [0, 1] and rounded to the nearest
\* thousandth.
C15_ScoreIsClampedSum ==
    pc["startup"] = "scored" =>
       LET p == loc["startup"].proxies[1] IN
       /\ p.quality_score \in 0..1000
       /\ 100 * p.quality_score - ClampedSum(p) \in -50..50

C15_Witness ==
    /\ pc["startup"] = "scored"
    /\ loc["startup"].proxies[1].source_count = 4
    /\ loc["startup"].proxies[1].reliability = 1000
    /\ loc["startup"].proxies[1].speed_ms = 1
    /\ loc["startup"].proxies[1].anonymity = "elite"
    /\ loc["startup"].proxies[1].verified_targets = 6
    /\ loc["startup"].proxies[1].quality_score = 1000

\* C16: the cached records are in order of quality_score, highest first; every
\* quality_score is the scorer's value for the record that carries it; and of
\* two records of equal score the one whose key comes first in the raw list
\* is first.
C16_SortedByScore ==
    /\ \A j \in 1..Len(cache.proxies) :
          cache.proxies[j].quality_score = compute_quality_score(cache.proxies[j])
    /\ \A i, j \in 1..Len(cache.proxies) :
          i < j =>
             /\ cache.proxies[i].quality_score >= cache.proxies[j].quality_score
             /\ (IsMerged /\ cache.proxies[i].quality_score = cache.proxies[j].quality_score)
                   => Least(Reports(cache.proxies[i])) < Least(Reports(cache.proxies[j]))

C16_Witness ==
    /\ IsMerged
    /\ Len(Raw) = 4 /\ Len(cache.proxies) = 2
    /\ Key(Raw[1]) = Key(cache.proxies[1])
    /\ Key(Raw[2]) = Key(cache.proxies[2])
    /\ cache.proxies[1].source_count = 2
    /\ cache.proxies[1].quality_score = cache.proxies[2].quality_score

\* C17: a spot check over no records stores the ratio 0 without probing; a
\* spot check over some records probes min(N, number of records) distinct
\* records of them and stores successes / min(N, number of records), a ratio
\* in [0, 1], whatever the probes do and whatever the sample size N.
C17_SpotCheckRatio ==
    [][\A t \in Tasks :
          /\ (/\ pc[t] = "closing" /\ pc'[t] \notin {"closing", "cancelled"}
              /\ ShouldWrite(Merged(t), cache))
                => IF Merged(t) = <<>>
                   THEN cache'.spot_check_success_rate = 0 /\ pc'[t] # "probing"
                   ELSE /\ pc'[t] = "probing"
                        /\ loc'[t].sample \subseteq 1..Len(Merged(t))
                        /\ Cardinality(loc'[t].sample)
                              = Min(SPOT_CHECK_SAMPLE_SIZE, Len(Merged(t)))
          /\ (pc[t] = "probing" /\ pc'[t] \notin {"probing", "cancelled"})
                => /\ cache'.spot_check_success_rate \in 0..1000
                   /\ \E successes \in 0..Cardinality(loc[t].sample) :
                         cache'.spot_check_success_rate
                            = (successes * 1000)
                                 \div Min(SPOT_CHECK_SAMPLE_SIZE, Len(loc[t].proxies))]_vars

\* C18: is_stale(ttl) answers true for a cache that was never updated, and for
\* a cache that was updated exactly when the time since the latest update
\* exceeds ttl (so it answers false right after an update for a ttl above 0).
C18_StaleExactly ==
    response.handler = "is_stale" =>
       LET ttl == response.count
           updates == events["startup"]
       IN  /\ updates = <<>> => response.status = "stale"
           /\ updates # <<>> =>
                 (response.status = "stale" <=> now - updates[1] > ttl)
           /\ (updates # <<>> /\ updates[1] = now /\ ttl > 0) => response.status = "fresh"

C18_Witness ==
    /\ response.handler = "is_stale"
    /\ events["startup"] = <<2>>
    /\ now = 4
    /\ response.count = 2
    /\ response.status = "fresh"

\* Shutdown asks the periodic task to cancel.
CancelOnShutdown ==
    (lifespan = "serving" /\ lifespan' = "stopping") => cancel'["periodic"]

\* The next step of a task asked to cancel is the cancellation itself, at the
\* await where the task is suspended; until then nothing of the cycle happens.
CancelLands ==
    cancel["periodic"] =>
       /\ cache' = cache
       /\ pc'["periodic"] # pc["periodic"] =>
             /\ pc["periodic"] \in {"sleep", "adapter", "closing", "probing"}
             /\ pc'["periodic"] = "cancelled"

ShutdownWaits ==
    /\ lifespan # "failed"
    /\ lifespan = "exited" => (pc["periodic"] = "cancelled" /\ ~cancel["periodic"])
    /\ pc["periodic"] = "cancelled" => lifespan \in {"stopping", "exited"}

NoWriteAfterExit == lifespan = "exited" => (cache' = cache /\ pc' = pc)

\* C19: shutdown cancels the periodic task; the cancellation ends the task at
\* the await where it is suspended (the sleep, a retrieval, closing the client
\* or the probes) and no handler of the cycle catches it; the lifespan exits
\* only when the task is over, and the cache is not written afterwards.
C19_ShutdownCancelsAndWaits ==
    /\ []ShutdownWaits
    /\ [][CancelOnShutdown /\ CancelLands /\ NoWriteAfterExit]_vars

C19_Witness ==
    /\ lifespan = "exited"
    /\ pc["periodic"] = "cancelled"
    /\ outcome["periodic"].result = "cancelled"
    /\ Pos(events["periodic"], "update") > 0
    /\ Pos(events["periodic"], "rate") = 0
    /\ cache.proxies # <<>>
    /\ cache.proxies[1].cycle = 2

\* The addresses of the well-formed entries of a payload, in order.
RECURSIVE GoodAddresses(_)
GoodAddresses(data) ==
    IF data = <<>> THEN <<>>
    ELSE LET e == data[Len(data)]
             rest == GoodAddresses(SubSeq(data, 1, Len(data) - 1))
         IN  IF e \in GoodEntries THEN Append(rest, e.ip.s) ELSE rest

\* C20: whatever malformed entries a payload holds, the adapter that parses it
\* does not fail and emits a record for every well-formed entry, in order,
\* and none for an entry without a usable port or that is no object.
C20_BadEntryDropped ==
    pc["startup"] = "parsed" =>
       LET l == loc["startup"]
           name == events["startup"][1]
           emitted == l.fetchers[name].proxies
       IN  /\ l.source_status[name] = "ok"
           /\ [i \in 1..Len(GoodAddresses(l.data)) |-> GoodAddresses(l.data)[i]]
                 = [i \in 1..Len(SelectSeq(emitted, LAMBDA p : p.ip # "3.3.3.3")) |->
                       SelectSeq(emitted, LAMBDA p : p.ip # "3.3.3.3")[i].ip]
           /\ \A i \in 1..Len(emitted) : emitted[i].port \in {80, 8080}

Protocols == {"http", "https", "socks4", "socks5"}
AnonymityTags == {"transparent", "anonymous", "elite"}
ProtocolKnown(r) == r.protocol \in Protocols
AnonymityKnown(r) == r.anonymity \in AnonymityTags \cup {NoneStr}
UrlOfOwnFields(r) == r.proxy_url = r.protocol \o "://" \o r.ip \o ":" \o ToString(r.port)
\* The part of C21 about anonymity and connection URL alone.
C21_AnonymityAndUrl ==
    \A i \in 1..Len(cache.proxies) :
        AnonymityKnown(cache.proxies[i]) /\ UrlOfOwnFields(cache.proxies[i])

\* C21: every record of every cache generation has a protocol among http,
\* https, socks4 and socks5 and an anonymity among transparent, anonymous and
\* elite or none, whatever strings the feeds supply, and its connection URL
\* is "{protocol}://{address}:{port}" of its own protocol, address and port.
C21_RecordWellFormed ==
    \A i \in 1..Len(cache.proxies) :
        /\ ProtocolKnown(cache.proxies[i])
        /\ AnonymityKnown(cache.proxies[i])
        /\ UrlOfOwnFields(cache.proxies[i])

\* The cycle of task t wrote the records the cache holds and has stored no
\* ratio: its spot check is in progress, or was cut short.
HoldsUncheckedRecordsOf(t) ==
    /\ cache.proxies # <<>>
    /\ cache.proxies[1].cycle = outcome[t].cycle
    /\ Pos(events[t], "rate") = 0

\* C22: in every state a reader can observe, a ratio in the cache was computed
\* from a sample of the records the cache holds: while the spot check of the
\* records just written is in progress, or after it was cut short by the
\* startup timeout, a cancellation or an exception, the cache shows no ratio
\* rather than that of an earlier generation.
C22_RatioOfHeldRecords ==
    \A t \in Tasks :
        HoldsUncheckedRecordsOf(t) => cache.spot_check_success_rate = NoneNum

\* The cycle of task t that ends in this step fetched no record while the
\* cache held some.
ZeroRecordCycleEnds(t) ==
    /\ CycleEnds(t)
    /\ pc[t] = "closing"
    /\ Merged(t) = <<>>
    /\ pre[t].proxies # <<>>

\* Such a cycle changes the source-status map and nothing else of the cache,
\* and runs no spot check.
OnlyStatusChanges ==
    \A t \in Tasks :
        ZeroRecordCycleEnds(t) =>
            /\ cache' = [pre[t] EXCEPT !.source_status = loc[t].source_status]
            /\ cache'.cached_at = pre[t].cached_at
            /\ cache'.spot_check_success_rate = pre[t].spot_check_success_rate
            /\ Pos(events'[t], "spot_check") = 0
            /\ pc'[t] # "probing"

\* This step is refresh_cache's call of cache.update.
WritesRecords == \E t \in Tasks : pc[t] = "closing" /\ Pos(events'[t], "update") > 0

\* The capture time is that of the last step that wrote records: the write
\* stamps it, every other step leaves it, so the age grows with the clock.
StampedOnlyByWrites ==
    /\ WritesRecords => cache'.cached_at = now
    /\ ~WritesRecords =>
          /\ cache'.cached_at = cache.cached_at
          /\ age_seconds(cache', now') = age_seconds(cache, now) + (now' - now)

\* Once stale for a ttl, stale for it until records are written again.
StaysStale ==
    \A ttl \in TTLs :
        (is_stale(cache, ttl, now) /\ ~WritesRecords) => is_stale(cache', ttl, now')

\* is_stale(ttl) answers true exactly when more than ttl has elapsed since the
\* capture time.
StaleOnceElapsed ==
    response.handler = "is_stale" =>
        (response.status = "stale" <=> now - cache.cached_at > response.count)

\* C23: a zero-record cycle on a non-empty cache changes only the
\* source-status map: capture time and spot-check ratio keep their pre-cycle
\* values and no spot check runs; so the age keeps growing across consecutive
\* zero-record cycles, and is_stale(ttl) becomes true once ttl has elapsed
\* since the last cycle that wrote records and stays true until the next.
C23_ZeroRecordCycleKeepsAge ==
    /\ [][OnlyStatusChanges /\ StampedOnlyByWrites /\ StaysStale]_vars
    /\ []StaleOnceElapsed

\* Two zero-record cycles in a row, at times 2 and 3, on the records written
\* at time 1: stale for a ttl of 1, which was not so after the first of them.
C23_Witness ==
    /\ outcome["periodic"] = [cycle |-> 3, result |-> "kept_stale"]
    /\ cache.proxies # <<>> /\ cache.proxies[1].cycle = 1
    /\ cache.cached_at = 1 /\ now = 3
    /\ cache.spot_check_success_rate = 1000
    /\ cache.source_status["proxifly"] = "error: ConnectTimeout"
    /\ response = [handler |-> "is_stale", count |-> 1, status |-> "stale"]

====
